---------------------------- MODULE Spec2Model ----------------------------
(***************************************************************************)
(* A model of the streaming decoder VariableResponse::Parse of             *)
(* paddle/fluid/operators/detail/variable_response.cc.                     *)
(*                                                                         *)
(* The byte source (a ZeroCopyInputStream over the transport's slices) is  *)
(* the environment: it hands over one wire field at a time, only when the  *)
(* decoder has run out of bytes, and finally closes.  Every byte carries   *)
(* the flag "a new chunk starts here", so a chunking of the stream is a    *)
(* choice of flags.  The decoder is one action per case of the switch of   *)
(* Parse, each the whole handler (tag read, reads, copies, return).        *)
(***************************************************************************)
EXTENDS Integers, Sequences, FiniteSets, TLC

(***************************************************************************)
(* Bounds of the model.                                                    *)
(***************************************************************************)
\* number of wire fields the byte source delivers in one message
MaxFields == 3

(***************************************************************************)
(* Program constants.                                                      *)
(***************************************************************************)
WIRETYPE_VARINT == 0
WIRETYPE_LENGTH_DELIMITED == 2
\* field numbers of sendrecv::VariableMessage (send_recv.proto)
kVarnameFieldNumber == 1
kTypeFieldNumber == 2
kDataTypeFieldNumber == 3
kDimsFieldNumber == 4
kLodLevelFieldNumber == 5
kLodFieldNumber == 6
kSerializedFieldNumber == 7
kRowsFieldNumber == 8
\* field number of sendrecv::VariableMessage_LodData
kLodDataFieldNumber == 1
\* sendrecv::VarType; LOD_TENSOR is the value of a `type` that was never set
LOD_TENSOR == 0
SELECTED_ROWS == 1
INT_MAX == 2147483647
\* sendrecv::VariableMessage::FP32
FP32 == 5
\* the argument of ReadTagWithCutoff
kTagCutoff == 127
\* a varint is at most ten bytes long
kMaxVarintBytes == 10
\* CodedInputStream's default recursion limit
kRecursionLimit == 100

GetTagFieldNumber(tag) == tag \div 8
GetTagWireType(tag) == tag % 8

VARIABLES
    input,    \* bytes handed over by the source and not yet consumed:
              \* a sequence of [b: 0..255, s: BOOLEAN], s = "a chunk starts here"
    more,     \* the source has not yet signalled end-of-stream
    meta,     \* meta_: the VariableMessage being accumulated
    scope,    \* scope_: variable name -> destination
    place,    \* dev_ctx_->GetPlace(): "cpu" or "gpu"
    pc,       \* position of Parse: "AwaitingTag", "Done", "Fatal", "Crashed"
    ret,      \* the value Parse returned (meaningful when pc = "Done")
    inflight, \* host-to-device transfers issued and not yet synchronised
    sent,     \* history: the fields the source has handed over, in order
    cut,      \* history: how the stream ended: "none", "inside", "boundary"
    synced,   \* history: how many fields of `sent` the decoder has consumed
              \* exactly, or -1 once its cursor left the field boundaries
    last,     \* history: what the last handler of Parse did
    vars_,    \* BlockDesc::vars_: name -> the VarDesc the block owns under it
    ops_,     \* BlockDesc::ops_: the OpDescs of the block, in order
    need_update_, \* BlockDesc::need_update_
    desc,     \* what desc_ held after the last Flush
    nextid,   \* the id the next object created gets
    bres,     \* history: the last BlockDesc call, its result, the block before it
    prog,     \* what the ProgramDesc has told FindVarRecursive about the blocks
    frontier, \* FindVarRecursive: the queue of blocks to look at
    visited,  \* FindVarRecursive: the blocks already looked at
    find      \* FindVarRecursive: position, argument, result, blocks looked at

parsevars == <<input, more, meta, scope, place, pc, ret, inflight, sent, cut, synced,
               last>>

blockvars == <<vars_, ops_, need_update_, desc, nextid, bres>>

findvars == <<prog, frontier, visited, find>>

vars == <<parsevars, blockvars, findvars>>

(***************************************************************************)
(* CodedInputStream.  A cursor p counts the bytes of `input` consumed in   *)
(* the current step; lim is the current limit (PushLimit), as a cursor.    *)
(* A read that needs a byte the source has not handed over yet, while the  *)
(* source is still open, is "block": the decoder waits in the chunk pull.  *)
(* Every read is written as a chain of small operators, each taking the    *)
(* result of the read before it.                                           *)
(***************************************************************************)
Avail(p, lim) ==
    IF p >= lim THEN "limit"
    ELSE IF p < Len(input) THEN "byte"
    ELSE IF more THEN "block"
    ELSE "eof"

Bytes(p, n) == [i \in 1..n |-> input[p + i].b]

VRes(st, v, p) == [st |-> st, v |-> v, p |-> p]

RECURSIVE VarintFrom(_, _, _, _, _)
VarintByte(p, lim, n, acc, mult, b) ==
    IF b < 128 THEN VRes("ok", acc + b * mult, p + 1)
    ELSE VarintFrom(p + 1, lim, n + 1, acc + (b - 128) * mult, mult * 128)

VarintStep(p, lim, n, acc, mult, a) ==
    IF a = "block" THEN VRes("block", 0, p)
    ELSE IF a # "byte" THEN VRes("fail", 0, p)
    ELSE VarintByte(p, lim, n, acc, mult, input[p + 1].b)

VarintFrom(p, lim, n, acc, mult) ==
    IF n = kMaxVarintBytes THEN VRes("fail", 0, p)
    ELSE VarintStep(p, lim, n, acc, mult, Avail(p, lim))

ReadVarint64(p, lim) == VarintFrom(p, lim, 0, 0, 1)

\* the values of the model stay below 2^31, so the 32-bit read keeps them
ReadVarint32(p, lim) == ReadVarint64(p, lim)

SizeAsInt(r) == IF r.st = "ok" /\ r.v > INT_MAX THEN VRes("fail", 0, r.p) ELSE r

ReadVarintSizeAsInt(p, lim) == SizeAsInt(ReadVarint64(p, lim))

\* ReadString: `size` bytes, or failure when the stream or the limit ends first
ReadString(p, lim, size) ==
    IF size < 0 \/ p + size > lim THEN VRes("fail", <<>>, p)
    ELSE IF p + size > Len(input) THEN VRes(IF more THEN "block" ELSE "fail", <<>>, p)
    ELSE VRes("ok", Bytes(p, size), p + size)

(***************************************************************************)
(* ReadTagWithCutoff(127): (tag, second).  A first byte 1..127 is the tag. *)
(* At the limit or at the end of the stream the tag is 0 and the stream    *)
(* notes a legitimate message end.  A zero byte is consumed and reported   *)
(* as tag 0 without that note.  A longer tag is read as a varint and is    *)
(* "second" only when it is at most the cutoff.                            *)
(***************************************************************************)
TRes(st, tag, second, p, legit) ==
    [st |-> st, tag |-> tag, second |-> second, p |-> p, legit |-> legit]

TagFallback(p, r) ==
    IF r.st = "block" THEN TRes("block", 0, FALSE, p, FALSE)
    ELSE IF r.st = "fail" THEN TRes("ok", 0, FALSE, r.p, FALSE)
    ELSE TRes("ok", r.v, r.v >= 1 /\ r.v <= kTagCutoff, r.p, FALSE)

TagByte(p, lim, b) ==
    IF b >= 1 /\ b <= 127 THEN TRes("ok", b, TRUE, p + 1, FALSE)
    ELSE IF b = 0 THEN TRes("ok", 0, FALSE, p + 1, FALSE)
    ELSE TagFallback(p, ReadVarint64(p, lim))

TagAt(p, lim, a) ==
    IF a = "block" THEN TRes("block", 0, FALSE, p, FALSE)
    ELSE IF a # "byte" THEN TRes("ok", 0, FALSE, p, TRUE)
    ELSE TagByte(p, lim, input[p + 1].b)

ReadTagWithCutoff(p, lim) == TagAt(p, lim, Avail(p, lim))

\* PushLimit: the new limit as a cursor, never beyond the old one
NewLimit(p, byte_limit) ==
    IF byte_limit >= 0 /\ byte_limit <= INT_MAX - p THEN p + byte_limit ELSE INT_MAX

Smaller(a, b) == IF a < b THEN a ELSE b

\* a sub-message parsed without a limit of its own
PushLimitNone(p, lim, byte_limit) == lim

PushLimit(p, lim, byte_limit) == Smaller(NewLimit(p, byte_limit), lim)

(***************************************************************************)
(* GetDirectBufferPointer: the rest of the current chunk, that is the      *)
(* bytes from the cursor up to the next chunk start.  Where the chunk ends *)
(* is known once the byte after it has been handed over or the source has  *)
(* closed.                                                                 *)
(***************************************************************************)
ChunkStarts(p) == {j \in (p + 2)..Len(input) : input[j].s}

Least(S) == CHOOSE j \in S : \A k \in S : j <= k

ChunkRest(p, starts) ==
    IF starts # {} THEN [st |-> "ok", n |-> Least(starts) - 1 - p]
    ELSE IF more THEN [st |-> "block", n |-> 0]
    ELSE [st |-> "ok", n |-> Len(input) - p]

GetDirectBufferPointer(p) ==
    IF p >= Len(input) THEN [st |-> IF more THEN "block" ELSE "fail", n |-> 0]
    ELSE ChunkRest(p, ChunkStarts(p))

(***************************************************************************)
(* ReadRaw: both branches run the same chunk loop; the device branch       *)
(* issues one transfer per chunk and waits for the stream after the loop.  *)
(* data is what was copied to dest, in the order of the offsets from 0.    *)
(***************************************************************************)
RawOut(st, ok, data, p, issued) ==
    [st |-> st, ok |-> ok, data |-> data, p |-> p, issued |-> issued]

RECURSIVE RawLoop(_, _, _, _)
\* one pass of the loop body: copy the whole chunk g, move on by its size
RawChunk(p, size, data, issued, size_to_write) ==
    RawLoop(p + size_to_write, size - size_to_write,
            data \o Bytes(p, size_to_write), issued + 1)

RawPull(p, size, data, issued, g) ==
    IF g.st = "block" THEN RawOut("block", FALSE, data, p, issued)
    ELSE IF g.st = "fail" THEN RawOut("ok", FALSE, data, p, issued)
    ELSE RawChunk(p, size, data, issued, g.n)

RawLoop(p, size, data, issued) ==
    IF size <= 0 THEN RawOut("ok", TRUE, data, p, issued)
    ELSE RawPull(p, size, data, issued, GetDirectBufferPointer(p))

\* the device branch without the Wait() after its loop
RawReturnNoWait(pl, r) ==
    [st |-> r.st, ok |-> r.ok, data |-> r.data, p |-> r.p,
     issued |-> IF pl = "gpu" THEN r.issued ELSE 0,
     waited |-> FALSE,
     pending |-> IF pl = "gpu" THEN r.issued ELSE 0]

\* after the loop: on the device, Wait() once the loop has ended normally;
\* pending = the transfers still in flight when ReadRaw returns
RawReturn(pl, r) ==
    [st |-> r.st, ok |-> r.ok, data |-> r.data, p |-> r.p,
     issued |-> IF pl = "gpu" THEN r.issued ELSE 0,
     waited |-> pl = "gpu" /\ r.ok,
     pending |-> IF pl = "gpu" /\ ~r.ok THEN r.issued ELSE 0]

ReadRaw(p, pl, size) == RawReturn(pl, RawLoop(p, size, <<>>, 0))

(***************************************************************************)
(* The packed loops of Parse (dims) and ParseLodData: `length` varints.    *)
(***************************************************************************)
RECURSIVE PackedLoop(_, _, _, _, _)
PackedStep(lim, i, length, acc, r) ==
    IF r.st # "ok" THEN VRes(r.st, acc, r.p)
    ELSE PackedLoop(r.p, lim, i + 1, length, Append(acc, r.v))

PackedLoop(p, lim, i, length, acc) ==
    IF i >= length THEN VRes("ok", acc, p)
    ELSE PackedStep(lim, i, length, acc, ReadVarint64(p, lim))

(***************************************************************************)
(* ParseLodData: res is the bool it returns; lenfail notes that the read   *)
(* of a packed block's length prefix failed ("return tag").                *)
(***************************************************************************)
LodOut(st, res, lod, p, legit, lenfail) ==
    [st |-> st, res |-> res, lod |-> lod, p |-> p, legit |-> legit,
     lenfail |-> lenfail]

RECURSIVE ParseLodData(_, _, _)
LodPacked(lim, lod, r) ==
    IF r.st = "block" THEN LodOut("block", FALSE, lod, r.p, FALSE, FALSE)
    ELSE IF r.st = "fail" THEN LodOut("ok", FALSE, lod, r.p, FALSE, FALSE)
    ELSE ParseLodData(r.p, lim, lod \o r.v)

\* "return tag" in a function returning bool: tag is 1, so true
LodPackedLength(lim, lod, tag, length) ==
    IF length.st = "block" THEN LodOut("block", FALSE, lod, length.p, FALSE, FALSE)
    ELSE IF length.st = "fail" THEN LodOut("ok", tag # 0, lod, length.p, FALSE, TRUE)
    ELSE LodPacked(lim, lod, PackedLoop(length.p, lim, 0, length.v, <<>>))

LodVarint(lim, lod, v) ==
    IF v.st = "block" THEN LodOut("block", FALSE, lod, v.p, FALSE, FALSE)
    ELSE IF v.st = "fail" THEN LodOut("ok", FALSE, lod, v.p, FALSE, FALSE)
    ELSE ParseLodData(v.p, lim, Append(lod, v.v))

LodField(lim, lod, tag, wt, p) ==
    IF tag # kLodDataFieldNumber THEN LodOut("ok", FALSE, lod, p, FALSE, FALSE)
    ELSE IF wt = WIRETYPE_VARINT THEN LodVarint(lim, lod, ReadVarint64(p, lim))
    ELSE IF wt = WIRETYPE_LENGTH_DELIMITED
    THEN LodPackedLength(lim, lod, tag, ReadVarintSizeAsInt(p, lim))
    ELSE LodOut("ok", FALSE, lod, p, FALSE, FALSE)

LodTag(lim, lod, t) ==
    IF t.st = "block" THEN LodOut("block", FALSE, lod, t.p, FALSE, FALSE)
    ELSE IF ~t.second
    THEN LodOut("ok", GetTagFieldNumber(t.tag) = 0, lod, t.p, t.legit, FALSE)
    ELSE LodField(lim, lod, GetTagFieldNumber(t.tag), GetTagWireType(t.tag), t.p)

ParseLodData(p, lim, lod) == LodTag(lim, lod, ReadTagWithCutoff(p, lim))

(***************************************************************************)
(* What one handler of Parse did: st is "cont" (break: back to the tag     *)
(* read), "ret" (Parse returned ret), "fatal" (PADDLE_ENFORCE threw),      *)
(* "crash" (the process died in undefined behaviour) or "block".  obs is   *)
(* the record kept in `last`.                                              *)
(***************************************************************************)
\* a variable as the scope creates it, and as GetMutable<T> makes it anew
NewVar(kind) ==
    [kind |-> kind, shape |-> <<>>, lod |-> <<>>, data |-> <<>>, rows |-> <<>>,
     place |-> "cpu"]

NoObs(f, wt) ==
    [field |-> f, wt |-> wt,
     second |-> TRUE,      \* the tag read returned a tag (not end-of-message)
     badwt |-> FALSE,      \* the handler rejected the wire type
     failed |-> FALSE,     \* a read or copy the handler called reported failure
     lenfail |-> FALSE,    \* ParseLodData could not read a packed length prefix
     popfail |-> FALSE,    \* DecrementRecursionDepthAndPopLimit returned false
     added |-> <<>>,       \* values appended to dims, or the lod level appended
     stored |-> FALSE,     \* something was stored in meta_
     raw |-> FALSE,        \* ReadRaw was called
     rawok |-> FALSE,      \* ReadRaw returned true
     L |-> 0,              \* declared length of the payload
     payload |-> <<>>,     \* the bytes after the length prefix (at most L)
     data |-> <<>>,        \* the bytes ReadRaw copied, from offset 0 of dest
     adv |-> 0,            \* how far ReadRaw moved the cursor
     issued |-> 0,         \* host-to-device transfers ReadRaw issued
     waited |-> FALSE,     \* ReadRaw synchronised the device stream
     unresolved |-> FALSE, \* FindVar returned null
     wild |-> FALSE,       \* bytes were written through the null handle
     oob |-> FALSE,        \* meta_.lod(i) was read beyond lod_size()
     dest |-> NewVar("none"), \* the destination as it was when ReadRaw was called
     cap |-> 0]            \* the bytes the destination buffer could hold then

Res(st, r, p, m, sc, infl, obs) ==
    [st |-> st, ret |-> r, p |-> p, meta |-> m, scope |-> sc, inflight |-> infl,
     obs |-> obs]

Block(f, wt) == Res("block", 0, 0, meta, scope, inflight, NoObs(f, wt))
\* "return tag" after a failed read
Fail(f, wt, p) ==
    Res("ret", f, p, meta, scope, inflight, [NoObs(f, wt) EXCEPT !.failed = TRUE])
\* "return tag" for a wire type the field does not allow
BadWire(f, wt, p) ==
    Res("ret", f, p, meta, scope, inflight, [NoObs(f, wt) EXCEPT !.badwt = TRUE])
\* a handler that also reshapes the variables of the scope as it stores
StoredAndReshaped(f, wt, p, m, added) ==
    Res("cont", 0, p, m, [n \in DOMAIN scope |-> [scope[n] EXCEPT !.shape = m.dims]],
        inflight, [NoObs(f, wt) EXCEPT !.stored = TRUE, !.added = added])

\* break after storing in meta_
Stored(f, wt, p, m, added) ==
    Res("cont", 0, p, m, scope, inflight,
        [NoObs(f, wt) EXCEPT !.stored = TRUE, !.added = added])

\* case kVarnameFieldNumber
VarnameString(tag, wt, temp) ==
    IF temp.st = "block" THEN Block(tag, wt)
    ELSE IF temp.st = "fail" THEN Fail(tag, wt, temp.p)
    ELSE Stored(tag, wt, temp.p, [meta EXCEPT !.varname = temp.v], <<>>)

VarnameLength(tag, wt, length) ==
    IF length.st = "block" THEN Block(tag, wt)
    ELSE IF length.st = "fail" THEN Fail(tag, wt, length.p)
    ELSE VarnameString(tag, wt, ReadString(length.p, INT_MAX, length.v))

HandleVarname(tag, wt, p) ==
    IF wt # WIRETYPE_LENGTH_DELIMITED THEN BadWire(tag, wt, p)
    ELSE VarnameLength(tag, wt, ReadVarint32(p, INT_MAX))

\* cases kTypeFieldNumber, kDataTypeFieldNumber, kLodLevelFieldNumber:
\* one varint stored in the field `name` of meta_
ScalarValue(tag, wt, name, v) ==
    IF v.st = "block" THEN Block(tag, wt)
    ELSE IF v.st = "fail" THEN Fail(tag, wt, v.p)
    ELSE Stored(tag, wt, v.p, [meta EXCEPT ![name] = v.v], <<>>)

\* the case without its check of the wire type
HandleScalarAnyWire(tag, wt, p, name) ==
    ScalarValue(tag, wt, name, ReadVarint64(p, INT_MAX))

HandleScalar(tag, wt, p, name) ==
    IF wt # WIRETYPE_VARINT THEN BadWire(tag, wt, p)
    ELSE ScalarValue(tag, wt, name, ReadVarint64(p, INT_MAX))

HandleType(tag, wt, p) == HandleScalar(tag, wt, p, "type")
HandleDataType(tag, wt, p) == HandleScalar(tag, wt, p, "data_type")
HandleLodLevel(tag, wt, p) == HandleScalar(tag, wt, p, "lod_level")

\* case kDimsFieldNumber, not packed
DimsValue(tag, wt, v) ==
    IF v.st = "block" THEN Block(tag, wt)
    ELSE IF v.st = "fail" THEN Fail(tag, wt, v.p)
    ELSE Stored(tag, wt, v.p, [meta EXCEPT !.dims = Append(@, v.v)], <<v.v>>)

\* case kDimsFieldNumber, packed; the values added before a failed read stay
DimsPacked(tag, wt, r) ==
    IF r.st = "block" THEN Block(tag, wt)
    ELSE IF r.st = "fail"
    THEN Res("ret", tag, r.p, [meta EXCEPT !.dims = @ \o r.v], scope, inflight,
             [NoObs(tag, wt) EXCEPT !.failed = TRUE, !.added = r.v,
                                    !.stored = r.v # <<>>])
    ELSE Stored(tag, wt, r.p, [meta EXCEPT !.dims = @ \o r.v], r.v)

DimsLength(tag, wt, length) ==
    IF length.st = "block" THEN Block(tag, wt)
    ELSE IF length.st = "fail" THEN Fail(tag, wt, length.p)
    ELSE DimsPacked(tag, wt, PackedLoop(length.p, INT_MAX, 0, length.v, <<>>))

HandleDims(tag, wt, p) ==
    IF wt = WIRETYPE_VARINT THEN DimsValue(tag, wt, ReadVarint64(p, INT_MAX))
    ELSE IF wt = WIRETYPE_LENGTH_DELIMITED
    THEN DimsLength(tag, wt, ReadVarintSizeAsInt(p, INT_MAX))
    ELSE BadWire(tag, wt, p)

\* case kLodFieldNumber, after ParseLodData: the pop of the limit succeeds
\* when the stream noted a legitimate message end; otherwise "return false"
\* in a function returning int, so Parse returns 0
LodParsed(tag, wt, d) ==
    IF d.st = "block" THEN Block(tag, wt)
    ELSE IF kRecursionLimit - 1 < 0 \/ ~d.res THEN Fail(tag, wt, d.p)
    ELSE IF ~d.legit
    THEN Res("ret", 0, d.p, meta, scope, inflight,
             [NoObs(tag, wt) EXCEPT !.failed = TRUE, !.popfail = TRUE,
                                    !.lenfail = d.lenfail])
    ELSE IF Len(d.lod) = 0 THEN Res("cont", 0, d.p, meta, scope, inflight, NoObs(tag, wt))
    ELSE Stored(tag, wt, d.p, [meta EXCEPT !.lod = Append(@, d.lod)], d.lod)

LodLength(tag, wt, length) ==
    IF length.st = "block" THEN Block(tag, wt)
    ELSE IF length.st = "fail" THEN Fail(tag, wt, length.p)
    ELSE LodParsed(tag, wt,
                   ParseLodData(length.p, PushLimit(length.p, INT_MAX, length.v), <<>>))

HandleLod(tag, wt, p) ==
    IF wt # WIRETYPE_LENGTH_DELIMITED THEN BadWire(tag, wt, p)
    ELSE LodLength(tag, wt, ReadVarintSizeAsInt(p, INT_MAX))

(***************************************************************************)
(* Destinations.  A variable of the scope holds nothing, a LoDTensor or a  *)
(* SelectedRows; GetMutable<T> replaces a holder of another type by a new  *)
(* T.  data is the tensor's storage, rows the row-index array, as bytes.   *)
(***************************************************************************)
GetMutable(var, kind) == IF var.kind = kind THEN var ELSE NewVar(kind)

\* scope_->FindVar(meta_.varname()) returns null
Unresolved == meta.varname \notin DOMAIN scope

\* GetDims: the dims of meta_ as the shape to resize to
GetDims(dims) == dims

\* the PADDLE_ENFORCE of the serialized and rows cases
MetaInfoGot ==
    /\ (meta.type = SELECTED_ROWS \/ meta.type = LOD_TENSOR)
    /\ meta.varname # <<>>

EnforceFailed(tag, wt, p) == Res("fatal", 0, p, meta, scope, inflight, NoObs(tag, wt))

RawObs(tag, wt, p, length, rr, oob) ==
    [NoObs(tag, wt) EXCEPT
        !.raw = TRUE, !.rawok = rr.ok, !.failed = ~rr.ok, !.L = length,
        !.payload = Bytes(p, Smaller(Len(input) - p, length)),
        !.data = rr.data, !.adv = rr.p - p, !.issued = rr.issued,
        !.waited = rr.waited, !.unresolved = Unresolved,
        !.wild = Unresolved /\ rr.data # <<>>, !.oob = oob]

\* what the handler does after the copy: break, or "return tag"
AfterCopy(tag, wt, p, length, rr, sc, oob) ==
    IF rr.st = "block" THEN Block(tag, wt)
    ELSE Res(IF rr.ok THEN "cont" ELSE "ret", IF rr.ok THEN 0 ELSE tag, rr.p, meta,
             IF Unresolved THEN scope ELSE sc,
             IF rr.waited THEN 0 ELSE inflight + rr.pending,
             RawObs(tag, wt, p, length, rr, oob))

Crash(tag, wt, p, oob) ==
    Res("crash", 0, p, meta, scope, inflight,
        [NoObs(tag, wt) EXCEPT !.unresolved = Unresolved, !.oob = oob])

(***************************************************************************)
(* CopyLodTensorData.  FindVar returns null for a name the scope does not  *)
(* hold and the result is used unchecked; meta_.lod(i) is read for every   *)
(* i < lod_level() whether or not that level exists.  Both are undefined   *)
(* behaviour: ub = "crash" is the process dying there, ub = "proceed" is   *)
(* the copy going on (through the null handle, with an empty level).       *)
(***************************************************************************)
LodOutOfRange == meta.lod_level > Len(meta.lod)

LodOfMeta ==
    [i \in 1..meta.lod_level |-> IF i <= Len(meta.lod) THEN meta.lod[i] ELSE <<>>]

ScopeWith(var) == IF Unresolved THEN scope ELSE [scope EXCEPT ![meta.varname] = var]

Holder(kind) ==
    IF Unresolved THEN NewVar(kind) ELSE GetMutable(scope[meta.varname], kind)

\* tensor->Resize(dims)
Resize(tensor, dims) == [tensor EXCEPT !.shape = dims]

\* tensor->set_lod(lod), with the lod built from meta_
SetLod(tensor) == [tensor EXCEPT !.lod = LodOfMeta]

\* the number of elements of a shape and the size of an element: the bytes
\* mutable_data provides for a tensor
RECURSIVE NumElements(_)
NumElements(shape) ==
    IF shape = <<>> THEN 1 ELSE Head(shape) * NumElements(Tail(shape))

SizeOfType(t) == IF t = FP32 THEN 4 ELSE 1

TensorCapacity(tensor) == NumElements(tensor.shape) * SizeOfType(meta.data_type)

\* the row-index array as mutable_rows() returns it: nothing resizes it
RowsCapacity(slr) == Len(slr.rows)

\* the bytes of a copy that land inside a buffer of cap bytes holding old
InBounds(data, old, cap) ==
    [i \in 1..cap |-> IF i <= Len(data) THEN data[i]
                      ELSE IF i <= Len(old) THEN old[i] ELSE 0]

\* a copy that wrote beyond the buffer is undefined behaviour: the process
\* dies (ub = "crash") or goes on with the memory behind the buffer
\* overwritten
Copied(res, dest, cap, ub) ==
    IF res.st = "block" THEN res
    ELSE IF Len(res.obs.data) > cap /\ ub = "crash"
    THEN [res EXCEPT !.st = "crash", !.ret = 0, !.scope = scope,
                     !.obs.dest = dest, !.obs.cap = cap]
    ELSE [res EXCEPT !.obs.dest = dest, !.obs.cap = cap]

\* mutable_data and ReadRaw into the tensor as prepared
TensorFilled(tag, wt, p, length, dest, rr, oob, ub) ==
    Copied(AfterCopy(tag, wt, p, length, rr,
                     ScopeWith([dest EXCEPT
                                   !.place = place,
                                   !.data = InBounds(rr.data, <<>>,
                                                     Smaller(Len(rr.data),
                                                             TensorCapacity(dest)))]),
                     oob),
           dest, TensorCapacity(dest), ub)

\* a copy that attaches the lod only after the bytes are in
LodTensorCopiedLodLast(tag, wt, p, dims, length, tensor, rr, ub) ==
    Copied(AfterCopy(tag, wt, p, length, rr,
                     ScopeWith(SetLod([Resize(tensor, dims) EXCEPT
                                          !.place = place, !.data = rr.data])),
                     LodOutOfRange),
           Resize(tensor, dims), TensorCapacity(Resize(tensor, dims)), ub)

LodTensorCopied(tag, wt, p, dims, length, tensor, rr, ub) ==
    TensorFilled(tag, wt, p, length, SetLod(Resize(tensor, dims)), rr,
                 LodOutOfRange, ub)

CopyLodTensorData(tag, wt, p, dims, length, ub) ==
    IF (Unresolved \/ LodOutOfRange) /\ ub = "crash"
    THEN Crash(tag, wt, p, LodOutOfRange)
    ELSE LodTensorCopied(tag, wt, p, dims, length, Holder("LoDTensor"),
                         ReadRaw(p, place, length), ub)

SelectRowsTensorCopied(tag, wt, p, dims, length, slr, rr, ub) ==
    TensorFilled(tag, wt, p, length, Resize(slr, dims), rr, FALSE, ub)

CopySelectRowsTensorData(tag, wt, p, dims, length, ub) ==
    IF Unresolved /\ ub = "crash" THEN Crash(tag, wt, p, FALSE)
    ELSE SelectRowsTensorCopied(tag, wt, p, dims, length, Holder("SelectedRows"),
                                ReadRaw(p, place, length), ub)

SelectRowsCopied(tag, wt, p, length, slr, rr, ub) ==
    Copied(AfterCopy(tag, wt, p, length, rr,
                     ScopeWith([slr EXCEPT
                                   !.rows = InBounds(rr.data, slr.rows,
                                                     RowsCapacity(slr))]),
                     FALSE),
           slr, RowsCapacity(slr), ub)

\* the row indices are always copied on the host
CopySelectRowsData(tag, wt, p, length, ub) ==
    IF Unresolved /\ ub = "crash" THEN Crash(tag, wt, p, FALSE)
    ELSE SelectRowsCopied(tag, wt, p, length, Holder("SelectedRows"),
                          ReadRaw(p, "cpu", length), ub)

\* case kSerializedFieldNumber
SerializedLength(tag, wt, length, ub) ==
    IF length.st = "block" THEN Block(tag, wt)
    ELSE IF length.st = "fail" THEN Fail(tag, wt, length.p)
    ELSE IF meta.type = LOD_TENSOR
    THEN CopyLodTensorData(tag, wt, length.p, GetDims(meta.dims), length.v, ub)
    ELSE IF meta.type = SELECTED_ROWS
    THEN CopySelectRowsTensorData(tag, wt, length.p, GetDims(meta.dims), length.v, ub)
    ELSE Res("ret", tag, length.p, meta, scope, inflight, NoObs(tag, wt))

HandleSerialized(tag, wt, p, ub) ==
    IF ~MetaInfoGot THEN EnforceFailed(tag, wt, p)
    ELSE IF wt # WIRETYPE_LENGTH_DELIMITED THEN BadWire(tag, wt, p)
    ELSE SerializedLength(tag, wt, ReadVarintSizeAsInt(p, INT_MAX), ub)

\* case kRowsFieldNumber
RowsLength(tag, wt, length, ub) ==
    IF length.st = "block" THEN Block(tag, wt)
    ELSE IF length.st = "fail" THEN Fail(tag, wt, length.p)
    ELSE CopySelectRowsData(tag, wt, length.p, length.v, ub)

HandleRows(tag, wt, p, ub) ==
    IF ~MetaInfoGot THEN EnforceFailed(tag, wt, p)
    ELSE IF wt # WIRETYPE_LENGTH_DELIMITED THEN BadWire(tag, wt, p)
    ELSE RowsLength(tag, wt, ReadVarintSizeAsInt(p, INT_MAX), ub)

(***************************************************************************)
(* The sender: the wire fields the byte source may carry (section 6 of the *)
(* wire format).  Each is a record of what the sender meant (f, kind,      *)
(* vals) and of the bytes it put on the wire; `cuts` are the positions in  *)
(* the bytes where the transport starts a new chunk; good = the bytes are  *)
(* a well-formed encoding of a field of VariableMessage.                   *)
(***************************************************************************)
Tag(f, wt) == f * 8 + wt

RECURSIVE EncVarint(_)
EncVarint(v) ==
    IF v < 128 THEN <<v>> ELSE <<(v % 128) + 128>> \o EncVarint(v \div 128)

RECURSIVE EncPacked(_)
EncPacked(vs) == IF vs = <<>> THEN <<>> ELSE EncVarint(Head(vs)) \o EncPacked(Tail(vs))

RECURSIVE EncUnpacked(_, _)
EncUnpacked(f, vs) ==
    IF vs = <<>> THEN <<>>
    ELSE <<Tag(f, WIRETYPE_VARINT)>> \o EncVarint(Head(vs)) \o EncUnpacked(f, Tail(vs))

LenDelimited(f, body) ==
    <<Tag(f, WIRETYPE_LENGTH_DELIMITED)>> \o EncVarint(Len(body)) \o body

Item(f, kind, vals, bytes, cuts, good) ==
    [f |-> f, kind |-> kind, vals |-> vals, bytes |-> bytes, cuts |-> cuts,
     good |-> good, k |-> Len(bytes)]

\* "x" is a variable of the scope, "y" is not
NameX == <<120>>
NameY == <<121>>
ScopeNames == {NameX}

DimSeqs == {<<128>>, <<2, 3>>}
LodSeqs == {<<128>>, <<0, 2>>}
Payloads == {<<5, 6>>}
RowBytes == {<<3>>}

VarnameItems ==
    {Item(kVarnameFieldNumber, "str", n, LenDelimited(kVarnameFieldNumber, n), {},
          TRUE) : n \in {NameX, NameY}}
ScalarItems ==
    {Item(kTypeFieldNumber, "scalar", <<v>>,
          EncUnpacked(kTypeFieldNumber, <<v>>), {}, TRUE)
        : v \in {LOD_TENSOR, SELECTED_ROWS}}
    \cup {Item(kDataTypeFieldNumber, "scalar", <<FP32>>,
               EncUnpacked(kDataTypeFieldNumber, <<FP32>>), {}, TRUE)}
    \cup {Item(kLodLevelFieldNumber, "scalar", <<1>>,
               EncUnpacked(kLodLevelFieldNumber, <<1>>), {}, TRUE)}
\* varname "x" and lod_level 1, handed over together
HeaderItems ==
    {Item(kVarnameFieldNumber, "header", NameX,
          LenDelimited(kVarnameFieldNumber, NameX)
              \o EncUnpacked(kLodLevelFieldNumber, <<1>>), {}, TRUE)}
DimsItems ==
    {Item(kDimsFieldNumber, "packed", vs,
          LenDelimited(kDimsFieldNumber, EncPacked(vs)), {}, TRUE) : vs \in DimSeqs}
    \cup {Item(kDimsFieldNumber, "unpacked", vs, EncUnpacked(kDimsFieldNumber, vs),
               {}, TRUE) : vs \in {<<2>>, <<128>>}}
LodItems ==
    {Item(kLodFieldNumber, "packed", vs,
          LenDelimited(kLodFieldNumber,
                       LenDelimited(kLodDataFieldNumber, EncPacked(vs))), {}, TRUE)
        : vs \in LodSeqs}
    \cup {Item(kLodFieldNumber, "unpacked", vs,
               LenDelimited(kLodFieldNumber, EncUnpacked(kLodDataFieldNumber, vs)),
               {}, TRUE) : vs \in LodSeqs}
    \cup {Item(kLodFieldNumber, "unpacked", <<>>, LenDelimited(kLodFieldNumber, <<>>),
               {}, TRUE)}
\* lod sub-messages that are not well formed: a zero byte where a tag is due,
\* a packed tag with no length prefix inside the sub-message, a packed block
\* that declares more bytes than the sub-message has, an unknown inner field
BadLodItems ==
    {Item(kLodFieldNumber, "bad", <<>>, LenDelimited(kLodFieldNumber, body), {}, FALSE)
        : body \in {<<0>>,
                    <<Tag(kLodDataFieldNumber, WIRETYPE_LENGTH_DELIMITED)>>,
                    <<Tag(kLodDataFieldNumber, WIRETYPE_LENGTH_DELIMITED), 5, 1>>,
                    <<Tag(2, WIRETYPE_VARINT), 1>>}}
\* a payload of two bytes comes in one chunk or split between its bytes
RawItems ==
    {Item(kSerializedFieldNumber, "raw", pl, LenDelimited(kSerializedFieldNumber, pl),
          c, TRUE) : pl \in Payloads, c \in {{}}}
    \cup {Item(kSerializedFieldNumber, "raw", <<5, 6>>,
               LenDelimited(kSerializedFieldNumber, <<5, 6>>), {4}, TRUE)}
    \cup {Item(kRowsFieldNumber, "raw", r, LenDelimited(kRowsFieldNumber, r), {},
               TRUE) : r \in RowBytes}
\* a recognized field with a wire type it does not allow
WrongWireItems ==
    {Item(f, "wrongwire", <<>>, <<Tag(f, WIRETYPE_VARINT), 1>>, {}, FALSE)
        : f \in {kVarnameFieldNumber, kLodFieldNumber, kSerializedFieldNumber,
                 kRowsFieldNumber}}
    \cup {Item(f, "wrongwire", <<>>, <<Tag(f, WIRETYPE_LENGTH_DELIMITED), 1, 1>>, {},
               FALSE)
            : f \in {kTypeFieldNumber, kDataTypeFieldNumber, kLodLevelFieldNumber}}
    \cup {Item(kDimsFieldNumber, "wrongwire", <<>>,
               <<Tag(kDimsFieldNumber, 5), 1, 0, 0, 0>>, {}, FALSE)}
\* tags that name no field of VariableMessage: field 9, field 0 with wire type
\* 1, field 16 (a two-byte tag); and a zero byte where a tag is due
UnknownItems ==
    {Item(GetTagFieldNumber(tg), "unknown", <<tg>>, EncVarint(tg) \o <<1>>, {}, FALSE)
        : tg \in {Tag(9, WIRETYPE_VARINT), Tag(0, 1), Tag(16, WIRETYPE_VARINT)}}
ZeroItems == {Item(0, "zero", <<>>, <<0>>, {}, FALSE)}

Items ==
    VarnameItems \cup ScalarItems \cup HeaderItems \cup DimsItems \cup LodItems \cup BadLodItems
    \cup RawItems \cup WrongWireItems \cup UnknownItems \cup ZeroItems

WithFlags(it, k, s0) ==
    [i \in 1..k |-> [b |-> it.bytes[i], s |-> IF i = 1 THEN s0 ELSE i \in it.cuts]]

(***************************************************************************)
(* One iteration of the loop of Parse: the tag read and the dispatch.      *)
(***************************************************************************)
Fields == kVarnameFieldNumber..kRowsFieldNumber

\* a default case that skips the field and goes on
UnknownTagSkipped(tag, wt, p) ==
    Res("cont", 0, p, meta, scope, inflight, NoObs(tag, wt))

\* default: unknown tag
UnknownTag(tag, wt, p) == Res("ret", -1, p, meta, scope, inflight, NoObs(tag, wt))

Switch(tag, wt, p, ub) ==
    CASE tag = kVarnameFieldNumber -> HandleVarname(tag, wt, p)
      [] tag = kTypeFieldNumber -> HandleType(tag, wt, p)
      [] tag = kDataTypeFieldNumber -> HandleDataType(tag, wt, p)
      [] tag = kDimsFieldNumber -> HandleDims(tag, wt, p)
      [] tag = kLodLevelFieldNumber -> HandleLodLevel(tag, wt, p)
      [] tag = kLodFieldNumber -> HandleLod(tag, wt, p)
      [] tag = kSerializedFieldNumber -> HandleSerialized(tag, wt, p, ub)
      [] tag = kRowsFieldNumber -> HandleRows(tag, wt, p, ub)
      [] OTHER -> UnknownTag(tag, wt, p)

\* an end-of-message branch that falls through to the next pass of the loop
EndOfMessageGoesOn(tag, wt, p) ==
    Res("cont", 0, p, meta, scope, inflight, [NoObs(tag, wt) EXCEPT !.second = FALSE])

\* the end-of-message return of Parse: the tag read gave second = false
EndOfMessage(tag, wt, p) ==
    Res("ret", IF tag # 0 THEN -1 ELSE 0, p, meta, scope, inflight,
        [NoObs(tag, wt) EXCEPT !.second = FALSE])

Dispatch(t, ub) ==
    IF t.st = "block" THEN Block(0, 0)
    ELSE IF ~t.second
    THEN EndOfMessage(GetTagFieldNumber(t.tag), GetTagWireType(t.tag), t.p)
    ELSE Switch(GetTagFieldNumber(t.tag), GetTagWireType(t.tag), t.p, ub)

Iteration(ub) == Dispatch(ReadTagWithCutoff(0, INT_MAX), ub)

\* the decoder waits in a chunk pull: it needs a byte, or the end of a chunk,
\* that the source has not handed over yet
Blocked == pc = "AwaitingTag" /\ more /\ Iteration("crash").st = "block"

(***************************************************************************)
(* History: which field of `sent` starts at the cursor.                    *)
(***************************************************************************)
RECURSIVE SyncAfter(_, _)
SyncAfter(j, n) ==
    IF n = 0 THEN j
    ELSE IF j < 0 \/ j >= Len(sent) THEN -1
    ELSE IF sent[j + 1].k > n THEN -1
    ELSE SyncAfter(j + 1, n - sent[j + 1].k)

CurItem == IF synced >= 0 /\ synced < Len(sent) THEN synced + 1 ELSE 0

Commit(r) ==
    /\ r.st # "block"
    /\ input' = SubSeq(input, r.p + 1, Len(input))
    /\ meta' = r.meta
    /\ scope' = r.scope
    /\ inflight' = r.inflight
    /\ pc' = CASE r.st = "cont" -> "AwaitingTag"
               [] r.st = "ret" -> "Done"
               [] r.st = "fatal" -> "Fatal"
               [] OTHER -> "Crashed"
    /\ ret' = IF r.st = "ret" THEN r.ret ELSE ret
    /\ synced' = SyncAfter(synced, r.p)
    /\ last' = [obs |-> r.obs, item |-> CurItem, st |-> r.st, p |-> r.p]
    /\ UNCHANGED <<more, place, sent, cut>>
    /\ UNCHANGED <<blockvars, findvars>>

(***************************************************************************)
(* The byte source.                                                        *)
(***************************************************************************)
\* whether the next field may continue the current chunk: the decoder is in
\* the serialized or rows case and bytes of that chunk are still unconsumed
MayContinueChunk ==
    /\ input # <<>>
    /\ GetTagFieldNumber(input[1].b) \in {kSerializedFieldNumber, kRowsFieldNumber}

StartFlags == IF MayContinueChunk THEN BOOLEAN ELSE {TRUE}

\* the next field arrives, in a new chunk (s0) or in the current one
Send(it, s0) ==
    /\ input' = input \o WithFlags(it, it.k, s0)
    /\ sent' = Append(sent, it)
    /\ UNCHANGED <<more, meta, scope, place, pc, ret, inflight, cut, synced, last>>
    /\ UNCHANGED <<blockvars, findvars>>

\* the stream ends inside a field: only its first k bytes arrive
SendPartial(it, k, s0) ==
    /\ input' = input \o WithFlags(it, k, s0)
    /\ sent' = Append(sent, [it EXCEPT !.k = k])
    /\ more' = FALSE
    /\ cut' = "inside"
    /\ UNCHANGED <<meta, scope, place, pc, ret, inflight, synced, last>>
    /\ UNCHANGED <<blockvars, findvars>>

\* the stream ends after the last field handed over
Close ==
    /\ Blocked
    /\ more' = FALSE
    /\ cut' = "boundary"
    /\ UNCHANGED <<input, meta, scope, place, pc, ret, inflight, sent, synced, last>>
    /\ UNCHANGED <<blockvars, findvars>>

Deliver ==
    /\ Blocked
    /\ Len(sent) < MaxFields
    /\ \E it \in Items, s0 \in StartFlags : Send(it, s0)

DeliverPartial ==
    /\ Blocked
    /\ Len(sent) < MaxFields
    /\ \E it \in {i \in Items : i.good}, s0 \in StartFlags :
           \E k \in 1..(it.k - 1) : SendPartial(it, k, s0)

(***************************************************************************)
(* Parse: one action per case of the switch, and the end-of-message return.*)
(***************************************************************************)
Case(r, f) ==
    pc = "AwaitingTag" /\ r.st # "block" /\ r.obs.second /\ r.obs.field = f /\ Commit(r)

ParseEnd(r) == pc = "AwaitingTag" /\ r.st # "block" /\ ~r.obs.second /\ Commit(r)

ParseUnknown(r) ==
    /\ pc = "AwaitingTag"
    /\ r.st # "block"
    /\ r.obs.second
    /\ r.obs.field \notin Fields
    /\ Commit(r)

ParseVarname == Case(Iteration("crash"), kVarnameFieldNumber)
ParseType == Case(Iteration("crash"), kTypeFieldNumber)
ParseDataType == Case(Iteration("crash"), kDataTypeFieldNumber)
ParseDims == Case(Iteration("crash"), kDimsFieldNumber)
ParseLodLevel == Case(Iteration("crash"), kLodLevelFieldNumber)
ParseLod == Case(Iteration("crash"), kLodFieldNumber)
ParseSerialized ==
    \E ub \in {"crash", "proceed"} : Case(Iteration(ub), kSerializedFieldNumber)
ParseRows == \E ub \in {"crash", "proceed"} : Case(Iteration(ub), kRowsFieldNumber)

(***************************************************************************)
(* BlockDesc (framework/block_desc.cc).  A block owns its VarDescs through *)
(* vars_ (name -> object) and its OpDescs through ops_ (a deque).  Every   *)
(* object carries a fresh id, so that a returned pointer can be compared   *)
(* with the objects the block still owns.  bres records the last call:     *)
(* its arguments, its return value and the block as it was before.         *)
(***************************************************************************)
MaxCalls == 3

nullptr == -1

VarNames == {"a", "b"}

VarDesc(id, name) == [id |-> id, name |-> name]

OpDesc(id, args) == [id |-> id, args |-> args]

HasVar(name) == name \in DOMAIN vars_

\* vars_[name].reset(v): the object held under `name` before, if any, is destroyed
Put(m, name, v) == [n \in DOMAIN m \cup {name} |-> IF n = name THEN v ELSE m[n]]

\* vars_.erase(name)
Erase(m, name) == [n \in DOMAIN m \ {name} |-> m[n]]

\* OpDesc::Rename: every argument `old` of the operator becomes `new`
Rename(op, old, new) ==
    [op EXCEPT !.args = IF old \in @ THEN (@ \ {old}) \cup {new} ELSE @]

RenamedOps(old, new) == [i \in 1..Len(ops_) |-> Rename(ops_[i], old, new)]

Called(op, old, new, s, e, r) ==
    bres' = [n |-> bres.n + 1, op |-> op, old |-> old, new |-> new, s |-> s, e |-> e,
             ret |-> r, vars0 |-> vars_, ops0 |-> ops_, upd0 |-> need_update_]

Var(name) ==
    /\ bres.n < MaxCalls
    /\ IF HasVar(name)
       THEN /\ Called("Var", name, "", 0, 0, vars_[name].id)
            /\ UNCHANGED <<vars_, need_update_, nextid>>
       ELSE /\ need_update_' = TRUE
            /\ vars_' = Put(vars_, name, VarDesc(nextid, name))
            /\ nextid' = nextid + 1
            /\ Called("Var", name, "", 0, 0, nextid)
    /\ UNCHANGED <<ops_, desc, parsevars, findvars>>

\* the new object is a copy of the one under old_name with its name changed;
\* it is stored under new_name, then the entry under old_name is erased
RenameVar(old_name, new_name) ==
    /\ bres.n < MaxCalls
    /\ IF ~HasVar(old_name)
       THEN /\ Called("RenameVar", old_name, new_name, 0, 0, nullptr)
            /\ UNCHANGED <<vars_, ops_, need_update_, nextid>>
       ELSE /\ need_update_' = TRUE
            /\ vars_' = Erase(Put(vars_, new_name,
                                  [vars_[old_name] EXCEPT !.id = nextid, !.name = new_name]),
                              old_name)
            /\ ops_' = RenamedOps(old_name, new_name)
            /\ nextid' = nextid + 1
            /\ Called("RenameVar", old_name, new_name, 0, 0, nextid)
    /\ UNCHANGED <<desc, parsevars, findvars>>

\* ops_ with a new operator before position index (0 = front)
Inserted(index, op) == SubSeq(ops_, 1, index) \o <<op>> \o SubSeq(ops_, index + 1, Len(ops_))

NewOp(op, index, args) ==
    /\ bres.n < MaxCalls
    /\ need_update_' = TRUE
    /\ ops_' = Inserted(index, OpDesc(nextid, args))
    /\ nextid' = nextid + 1
    /\ Called(op, "", "", index, 0, nextid)
    /\ UNCHANGED <<vars_, desc, parsevars, findvars>>

AppendOp == NewOp("AppendOp", Len(ops_), {})

AppendAllocatedOp(args) == NewOp("AppendAllocatedOp", Len(ops_), args)

PrependOp == NewOp("PrependOp", 0, {})

InsertOp(index) == NewOp("InsertOp", index, {})

\* ops_.erase(ops_.begin() + s, ops_.begin() + e)
Erased(s, e) == SubSeq(ops_, 1, s) \o SubSeq(ops_, e + 1, Len(ops_))

RemoveOp(s, e) ==
    /\ bres.n < MaxCalls
    /\ IF s = Len(ops_) \/ e = Len(ops_)
       THEN UNCHANGED <<ops_, need_update_>>
       ELSE /\ need_update_' = TRUE
            /\ ops_' = Erased(s, e)
    /\ Called("RemoveOp", "", "", s, e, nullptr)
    /\ UNCHANGED <<vars_, desc, nextid, parsevars, findvars>>

\* what desc_ holds: the operators in order and the variables, by object
Proto(vs, os) == [ops |-> [i \in 1..Len(os) |-> os[i].id],
                  vars |-> {vs[n].id : n \in DOMAIN vs}]

Flush ==
    /\ bres.n < MaxCalls
    /\ IF need_update_
       THEN /\ desc' = Proto(vars_, ops_)
            /\ need_update_' = FALSE
       ELSE UNCHANGED <<desc, need_update_>>
    /\ Called("Flush", "", "", 0, 0, nullptr)
    /\ UNCHANGED <<vars_, ops_, nextid, parsevars, findvars>>

\* the blocks BlockDesc(prog, desc) builds: the variables and operators of desc
DescVars == {[n \in D |-> VarDesc(IF n = "a" THEN 1 ELSE 2, n)] : D \in SUBSET VarNames}

DescOps == {<<>>, <<OpDesc(3, {"a"})>>, <<OpDesc(3, {"a"}), OpDesc(4, {"a", "b"})>>}

NoCall == [n |-> 0, op |-> "", old |-> "", new |-> "", s |-> 0, e |-> 0, ret |-> nullptr,
           vars0 |-> <<>>, ops0 |-> <<>>, upd0 |-> FALSE]

BlockDesc(vs, os) ==
    /\ vars_ = vs
    /\ ops_ = os
    /\ need_update_ = FALSE
    /\ desc = Proto(vs, os)
    /\ nextid = 5
    /\ bres = NoCall

(***************************************************************************)
(* FindVarRecursive.  Blocks are numbered from 0 (the block the call is    *)
(* made on) in the order the search first hears of them.  ForwardBlock and *)
(* ParentBlock are answered by the ProgramDesc: the answer for a block is  *)
(* drawn when the search first asks for it and kept in prog, and likewise  *)
(* for whether the block has the variable, so that every graph of at most  *)
(* NumBlocks blocks is covered once up to the numbering of its blocks.     *)
(* find.ret is the block whose variable is returned, or nullptr.           *)
(***************************************************************************)
NumBlocks == 3

kEmptyVarName == "@EMPTY@"

FindNames == {"x", kEmptyVarName}

\* the blocks a reference may lead to: none, a block already heard of, a new one
Targets(known) ==
    {nullptr} \cup known \cup
        (IF Cardinality(known) < NumBlocks THEN {Cardinality(known)} ELSE {})

FindVar(cur) == IF cur \in DOMAIN prog.has THEN {prog.has[cur]} ELSE BOOLEAN

ForwardBlock(cur) ==
    IF cur \in DOMAIN prog.fwd THEN {prog.fwd[cur]} ELSE Targets(prog.known)

ParentBlock(cur, fwd) ==
    IF cur \in DOMAIN prog.parent THEN {prog.parent[cur]}
    ELSE Targets(prog.known \cup ({fwd} \ {nullptr}))

Push(q, b) == IF b # nullptr THEN Append(q, b) ELSE q

PushedParentFirst(q, fwd, parent) == Push(Push(q, parent), fwd)

Pushed(q, fwd, parent) == Push(Push(q, fwd), parent)

Told(f, cur, v) == [b \in DOMAIN f \cup {cur} |-> IF b = cur THEN v ELSE f[b]]

\* entry: the empty-variable name returns at once, else the search starts at this
FindVarRecursive(name) ==
    /\ find.pc = "idle"
    /\ IF name = kEmptyVarName
       THEN /\ find' = [find EXCEPT !.pc = "done", !.name = name, !.ret = nullptr]
            /\ UNCHANGED frontier
       ELSE /\ find' = [find EXCEPT !.pc = "loop", !.name = name]
            /\ frontier' = <<0>>
    /\ UNCHANGED <<visited, prog, parsevars, blockvars>>

\* the loop ends with an empty frontier
FindNothing ==
    /\ find.pc = "loop"
    /\ frontier = <<>>
    /\ find' = [find EXCEPT !.pc = "done", !.ret = nullptr]
    /\ UNCHANGED <<frontier, visited, prog, parsevars, blockvars>>

\* the popped block was visited before
FindContinue ==
    /\ find.pc = "loop"
    /\ frontier # <<>>
    /\ Head(frontier) \in visited
    /\ frontier' = Tail(frontier)
    /\ UNCHANGED <<find, visited, prog, parsevars, blockvars>>

\* the popped block has the variable
FindReturn ==
    /\ find.pc = "loop"
    /\ frontier # <<>>
    /\ Head(frontier) \notin visited
    /\ TRUE \in FindVar(Head(frontier))
    /\ prog' = [prog EXCEPT !.has = Told(@, Head(frontier), TRUE)]
    /\ frontier' = Tail(frontier)
    /\ find' = [find EXCEPT !.pc = "done", !.ret = Head(frontier),
                            !.examined = Append(@, Head(frontier))]
    /\ UNCHANGED <<visited, parsevars, blockvars>>

\* the popped block does not have it: its forward block and its parent are pushed
FindPush ==
    /\ find.pc = "loop"
    /\ frontier # <<>>
    /\ Head(frontier) \notin visited
    /\ FALSE \in FindVar(Head(frontier))
    /\ \E fwd \in ForwardBlock(Head(frontier)) :
           \E parent \in ParentBlock(Head(frontier), fwd) :
               /\ prog' = [has |-> Told(prog.has, Head(frontier), FALSE),
                           fwd |-> Told(prog.fwd, Head(frontier), fwd),
                           parent |-> Told(prog.parent, Head(frontier), parent),
                           known |-> prog.known \cup ({fwd, parent} \ {nullptr})]
               /\ frontier' = Pushed(Tail(frontier), fwd, parent)
    /\ visited' = visited \cup {Head(frontier)}
    /\ find' = [find EXCEPT !.examined = Append(@, Head(frontier))]
    /\ UNCHANGED <<parsevars, blockvars>>

NoSearch ==
    /\ prog = [has |-> <<>>, fwd |-> <<>>, parent |-> <<>>, known |-> {0}]
    /\ frontier = <<>>
    /\ visited = {}
    /\ find = [pc |-> "idle", name |-> "", ret |-> nullptr, examined |-> <<>>]

(***************************************************************************)
(* Specifications: Parse of one message; calls on one block; one search.   *)
(***************************************************************************)
ParseInit ==
    /\ input = <<>>
    /\ more = TRUE
    /\ meta = [varname |-> <<>>, type |-> LOD_TENSOR, data_type |-> 0, dims |-> <<>>,
               lod_level |-> 0, lod |-> <<>>]
    /\ scope = [n \in ScopeNames |-> NewVar("none")]
    /\ place \in {"cpu", "gpu"}
    /\ pc = "AwaitingTag"
    /\ ret = 0
    /\ inflight = 0
    /\ sent = <<>>
    /\ cut = "none"
    /\ synced = 0
    /\ last = [obs |-> NoObs(0, 0), item |-> 0, st |-> "cont", p |-> 0]

Init ==
    /\ ParseInit
    /\ BlockDesc(<<>>, <<>>)
    /\ NoSearch

Next ==
    \/ Deliver
    \/ DeliverPartial
    \/ Close
    \/ ParseEnd(Iteration("crash"))
    \/ ParseVarname
    \/ ParseType
    \/ ParseDataType
    \/ ParseDims
    \/ ParseLodLevel
    \/ ParseLod
    \/ ParseSerialized
    \/ ParseRows
    \/ ParseUnknown(Iteration("crash"))

Spec == Init /\ [][Next]_vars

BlockInit ==
    /\ ParseInit
    /\ place = "cpu"
    /\ \E vs \in DescVars, os \in DescOps : BlockDesc(vs, os)
    /\ NoSearch

BlockNext ==
    \/ \E name \in VarNames : Var(name)
    \/ \E old_name \in VarNames, new_name \in VarNames : RenameVar(old_name, new_name)
    \/ AppendOp
    \/ \E args \in {{"a"}} : AppendAllocatedOp(args)
    \/ PrependOp
    \/ \E index \in 0..Len(ops_) : InsertOp(index)
    \/ \E s \in 0..Len(ops_) : \E e \in s..Len(ops_) : RemoveOp(s, e)
    \/ Flush

BlockSpec == BlockInit /\ [][BlockNext]_vars

FindInit ==
    /\ ParseInit
    /\ place = "cpu"
    /\ BlockDesc(<<>>, <<>>)
    /\ NoSearch

FindNext ==
    \/ \E name \in FindNames : FindVarRecursive(name)
    \/ FindNothing
    \/ FindContinue
    \/ FindReturn
    \/ FindPush

FindSpec == FindInit /\ [][FindNext]_vars /\ WF_vars(FindNext)

(***************************************************************************)
(* Properties of Parse.  `last` is what the handler that ran last did and  *)
(* which field of `sent` it started at (0 when the cursor was not at the   *)
(* start of one).                                                          *)
(***************************************************************************)
LastItem == sent[last.item]

\* the handler that ran last started at a well-formed field that had arrived whole
WholeGoodField(f) ==
    /\ last.item # 0
    /\ LastItem.f = f
    /\ LastItem.good
    /\ LastItem.k = Len(LastItem.bytes)
    /\ last.obs.second
    /\ last.obs.field = f

PayloadFields == {kSerializedFieldNumber, kRowsFieldNumber}

\* C1: a raw copy that reports success has written exactly the L bytes that
\* follow the length prefix, at offsets 0..L-1 of the destination, and has
\* advanced the cursor by exactly L, however the source cuts its chunks.
RawCopyWritesDeclaredLength ==
    (last.obs.raw /\ last.obs.rawok) =>
        /\ Len(last.obs.data) = last.obs.L
        /\ last.obs.data = last.obs.payload
        /\ last.obs.adv = last.obs.L

\* C2: a well-formed dims field, packed or one varint per tag, is accepted
\* and appends exactly the sizes the sender encoded, in order, also when a
\* size takes more than one byte as a varint.
DimsPackedLikeUnpacked ==
    (WholeGoodField(kDimsFieldNumber) /\ LastItem.kind \in {"packed", "unpacked"}) =>
        /\ last.st = "cont"
        /\ last.obs.added = LastItem.vals

\* C3: a well-formed lod sub-message, packed or one varint per tag, is
\* accepted and appends exactly the offsets the sender encoded as one level:
\* every varint of a packed block, no fewer and no more.
LodPackedLikeUnpacked ==
    (WholeGoodField(kLodFieldNumber) /\ LastItem.kind \in {"packed", "unpacked"}) =>
        /\ last.st = "cont"
        /\ last.obs.added = LastItem.vals

\* no type field was handed over before field i of `sent`
TypeNotSentBefore(i) ==
    \A j \in 1..(i - 1) : ~(sent[j].f = kTypeFieldNumber /\ sent[j].kind = "scalar")

\* C4: a serialized or rows field met before both varname and type were
\* received takes the fatal path: no return, no payload byte written.
PayloadBeforeNameAndTypeIsFatal ==
    (/\ last.obs.second
     /\ last.obs.field \in PayloadFields
     /\ WholeGoodField(last.obs.field)
     /\ TypeNotSentBefore(last.item)) =>
        /\ last.st = "fatal"
        /\ ~last.obs.raw

\* the source closed on a proper prefix of a valid message: well-formed fields
\* in the order of their numbers, the last one possibly cut short
ProperPrefixOfValid ==
    /\ cut # "none"
    /\ sent # <<>>
    /\ \A i \in 1..Len(sent) : sent[i].good
    /\ \A i \in 1..(Len(sent) - 1) : sent[i].f <= sent[i + 1].f

\* C5: on a proper prefix of a valid message, whether it ends between two
\* fields or inside one, Parse does not return Success.
TruncationIsNeverSuccess == (pc = "Done" /\ ProperPrefixOfValid) => ret # 0

\* C6: when a read or copy made by a handler fails (also the read of a packed
\* length prefix in ParseLodData, and the pop of the lod limit), Parse returns
\* the number of the field, which is not 0.
HandlerFailureReturnsField ==
    last.obs.failed => (pc = "Done" /\ ret = last.obs.field /\ ret # 0)

AllowedWire(f) ==
    IF f = kDimsFieldNumber THEN {WIRETYPE_VARINT, WIRETYPE_LENGTH_DELIMITED}
    ELSE IF f \in {kTypeFieldNumber, kDataTypeFieldNumber, kLodLevelFieldNumber}
    THEN {WIRETYPE_VARINT}
    ELSE {WIRETYPE_LENGTH_DELIMITED}

TopTag == ReadTagWithCutoff(0, INT_MAX)

\* the next tag names a recognized field with a wire type it does not allow
WrongWireAhead ==
    /\ pc = "AwaitingTag"
    /\ TopTag.st = "ok"
    /\ TopTag.second
    /\ GetTagFieldNumber(TopTag.tag) \in Fields
    /\ GetTagWireType(TopTag.tag) \notin AllowedWire(GetTagFieldNumber(TopTag.tag))
    /\ GetTagFieldNumber(TopTag.tag) \in PayloadFields => MetaInfoGot

\* C7: a recognized field with a wire type it does not allow makes Parse
\* return that field's number; the metadata and the destinations stay as
\* they were.
WrongWireTypeReturnsField ==
    [][WrongWireAhead =>
          /\ pc' = "Done"
          /\ ret' = GetTagFieldNumber(TopTag.tag)
          /\ meta' = meta
          /\ scope' = scope
          /\ inflight' = inflight]_vars

WrongWireTypeSeen ==
    /\ pc = "Done"
    /\ last.obs.badwt
    /\ ret = kDimsFieldNumber
    /\ meta.dims # <<>>

\* the next tag is not the end marker and names none of the eight fields
UnknownAhead ==
    /\ pc = "AwaitingTag"
    /\ TopTag.st = "ok"
    /\ TopTag.tag # 0
    /\ GetTagFieldNumber(TopTag.tag) \notin Fields

\* C8: a tag that names none of the eight fields makes Parse return -1, which
\* is no field's number; nothing is skipped and nothing after it is decoded.
UnknownFieldReturnsMinusOne ==
    [][UnknownAhead =>
          /\ pc' = "Done"
          /\ ret' = -1
          /\ ret' \notin Fields
          /\ meta' = meta
          /\ scope' = scope]_vars

UnknownFieldSeen ==
    /\ pc = "Done"
    /\ ret = -1
    /\ last.obs.second
    /\ last.obs.field \notin Fields
    /\ Len(input) > 0

\* C9: a copy to device memory reports success only after the device stream
\* was synchronised, and Parse never returns Success with a transfer still
\* outstanding.
TransfersSyncedBeforeSuccess ==
    /\ (last.obs.raw /\ last.obs.rawok /\ last.obs.issued > 0) => last.obs.waited
    /\ (pc = "Done" /\ ret = 0) => inflight = 0
    /\ pc = "AwaitingTag" => inflight = 0

DeviceCopySynced ==
    /\ place = "gpu"
    /\ last.obs.rawok
    /\ last.obs.issued >= 2
    /\ last.obs.waited
    /\ inflight = 0

\* C10: a serialized or rows field whose varname the scope does not hold ends
\* in a failure returned by Parse, and nothing is written through the
\* unresolved handle.
UnresolvedNameIsFailure ==
    (last.obs.field \in PayloadFields /\ last.obs.unresolved) =>
        /\ pc = "Done"
        /\ ret # 0
        /\ ~last.obs.wild

(***************************************************************************)
(* Termination, by a variant.  The byte source is finite: at most          *)
(* MaxFields fields of at most LongestItem bytes.  Rank bounds the steps   *)
(* that are left: the bytes handed over and not consumed, the bytes the    *)
(* source may still hand over, its closing, and the return of Parse.       *)
(***************************************************************************)
LongestItem == CHOOSE n \in {it.k : it \in Items} : \A it \in Items : it.k <= n

\* Parse has left its loop: it returned, threw, or the process died
Terminated == pc \in {"Done", "Fatal", "Crashed"}

Rank ==
    (IF Terminated THEN 0 ELSE 1) + Len(input)
    + (IF more THEN 1 + (MaxFields - Len(sent)) * (LongestItem + 1) ELSE 0)

\* C11: on every finite byte source Parse leaves its loops after finitely
\* many steps: it waits only while the source is open, every step of the
\* loop or of the source lowers the rank, and after the one outcome nothing
\* happens any more.
ParseTerminatesOnce ==
    /\ [](Rank >= 0)
    /\ []((pc = "AwaitingTag" /\ Iteration("crash").st = "block") => more)
    /\ [][Rank' < Rank]_vars
    /\ [][Terminated => UNCHANGED vars]_vars

ParseEndedAfterLoops ==
    /\ pc = "Done"
    /\ ~more
    /\ Len(sent) = MaxFields
    /\ meta.dims # <<>>
    /\ scope[NameX].data # <<>>

(***************************************************************************)
(* The limit around ParseLodData.                                          *)
(***************************************************************************)
\* the length prefix after the tag at the cursor
TopLength == ReadVarintSizeAsInt(TopTag.p, INT_MAX)

\* the next field is a lod field with a readable length prefix
LodAhead ==
    /\ pc = "AwaitingTag"
    /\ TopTag.st = "ok"
    /\ TopTag.second
    /\ GetTagFieldNumber(TopTag.tag) = kLodFieldNumber
    /\ GetTagWireType(TopTag.tag) = WIRETYPE_LENGTH_DELIMITED
    /\ TopLength.st = "ok"

\* the bytes of the sub-message that have arrived
SubMessage == Bytes(TopLength.p, Smaller(TopLength.v, Len(input) - TopLength.p))

\* the sub-message has arrived whole and starts with a packed block that
\* declares more bytes than the sub-message has left
OverlongPackedAhead ==
    /\ LodAhead
    /\ Len(SubMessage) = TopLength.v
    /\ Len(SubMessage) >= 2
    /\ SubMessage[1] = Tag(kLodDataFieldNumber, WIRETYPE_LENGTH_DELIMITED)
    /\ SubMessage[2] < 128
    /\ SubMessage[2] > Len(SubMessage) - 2

SuccessOnlyAtEndMarker ==
    /\ (pc = "Done" /\ ~last.obs.second) =>
           /\ ret = 0 <=> last.obs.field = 0
           /\ last.obs.field # 0 => ret = -1
    /\ (pc = "Done" /\ ret = 0) => (~last.obs.second /\ last.obs.field = 0)

MetaFields == Fields \ PayloadFields

\* the next tag names a field of the metadata, or a payload field
MetaFieldAhead ==
    /\ pc = "AwaitingTag"
    /\ TopTag.st = "ok"
    /\ TopTag.second
    /\ GetTagFieldNumber(TopTag.tag) \in MetaFields

PayloadFieldAhead ==
    /\ pc = "AwaitingTag"
    /\ TopTag.st = "ok"
    /\ TopTag.second
    /\ GetTagFieldNumber(TopTag.tag) \in PayloadFields

\* C15: a varname, type, data_type, dims, lod_level or lod field, parsed or
\* failed, leaves the scope and every destination in it as they were; the
\* scope changes only while a serialized or rows field is processed.
MetaFieldsChangeOnlyMeta ==
    [][/\ MetaFieldAhead => (scope' = scope /\ inflight' = inflight)
       /\ (scope' # scope \/ inflight' # inflight) => PayloadFieldAhead]_vars

MetaFieldAfterCopy ==
    /\ last.obs.second
    /\ last.obs.field \in MetaFields
    /\ last.obs.stored
    /\ scope[NameX].data # <<>>
    /\ scope[NameX].shape # meta.dims

\* C16: the bytes a serialized or rows field writes into its destination
\* never exceed what the buffer can hold, and a declared length above that
\* capacity is rejected: Parse returns the field number and copies nothing.
WritesFitCapacity ==
    (last.obs.raw /\ ~last.obs.unresolved) =>
        /\ Len(last.obs.data) <= last.obs.cap
        /\ last.obs.L > last.obs.cap =>
              (pc = "Done" /\ ret = last.obs.field /\ last.obs.data = <<>>)

\* C17: when a dense payload is materialized, the metadata holds at least
\* lod_level offset-table levels, so every level the copy reads exists.
LodLevelsExist ==
    (/\ last.obs.second
     /\ last.obs.field = kSerializedFieldNumber
     /\ meta.type = LOD_TENSOR
     /\ last.obs.raw \/ last.st = "crash") =>
        /\ Len(meta.lod) >= meta.lod_level
        /\ ~last.obs.oob

(***************************************************************************)
(* Properties of BlockDesc.  bres holds the last call and the block as it  *)
(* was before the call.                                                    *)
(***************************************************************************)
Owned == {vars_[n].id : n \in DOMAIN vars_}

CountChange == Cardinality(DOMAIN vars_) - Cardinality(DOMAIN bres.vars0)

\* C18: RenameVar(old, new) on a block that has `old` returns a variable the
\* block stores under `new` (also when new = old or `new` existed before),
\* removes `old` when it differs from `new` and changes the number of
\* variables by at most one; on a block without `old` it returns null and
\* leaves the variables, the operators and the need-update flag as they were.
RenameVarStoresUnderNewName ==
    bres.op = "RenameVar" =>
        IF bres.old \in DOMAIN bres.vars0
        THEN /\ bres.ret # nullptr
             /\ HasVar(bres.new)
             /\ vars_[bres.new].id = bres.ret
             /\ vars_[bres.new].name = bres.new
             /\ bres.old # bres.new => ~HasVar(bres.old)
             /\ CountChange \in {-1, 0, 1}
        ELSE /\ bres.ret = nullptr
             /\ vars_ = bres.vars0
             /\ ops_ = bres.ops0
             /\ need_update_ = bres.upd0

\* C19: RemoveOp(s, e) with 0 <= s <= e <= n removes exactly the operators
\* at positions s..e-1 and keeps the others in their order, also for e = n.
RemoveOpRemovesTheRange ==
    bres.op = "RemoveOp" =>
        /\ Len(ops_) = Len(bres.ops0) - (bres.e - bres.s)
        /\ \A i \in 1..Len(ops_) :
               ops_[i] = bres.ops0[IF i <= bres.s THEN i ELSE i + (bres.e - bres.s)]

(***************************************************************************)
(* Properties of FindVarRecursive, stated over the references and the      *)
(* variables the ProgramDesc has told about (prog).                        *)
(***************************************************************************)
HasIt(b) == b \in DOMAIN prog.has /\ prog.has[b]

Lacks(b) == b \in DOMAIN prog.has /\ ~prog.has[b]

\* the blocks b refers to: its forward block, then its parent
Refs(b) ==
    IF b \in DOMAIN prog.fwd
    THEN SelectSeq(<<prog.fwd[b], prog.parent[b]>>, LAMBDA c : c # nullptr)
    ELSE <<>>

RECURSIVE AddNew(_, _)
AddNew(order, bs) ==
    IF bs = <<>> THEN order
    ELSE AddNew(IF \E i \in 1..Len(order) : order[i] = Head(bs)
                THEN order ELSE Append(order, Head(bs)),
                Tail(bs))

\* breadth-first order: each block once, in the order it is first referred to
RECURSIVE BreadthFirst(_, _)
BreadthFirst(order, i) ==
    IF i > Len(order) THEN order
    ELSE BreadthFirst(AddNew(order, Refs(order[i])), i + 1)

RECURSIVE Reachable(_)
Reachable(S) ==
    IF \A b \in S : \A i \in 1..Len(Refs(b)) : Refs(b)[i] \in S THEN S
    ELSE Reachable(S \cup UNION {{Refs(b)[i] : i \in 1..Len(Refs(b))} : b \in S})

FirstWithVariable(order, b) ==
    \E i \in 1..Len(order) :
        /\ order[i] = b
        /\ HasIt(b)
        /\ \A j \in 1..(i - 1) : Lacks(order[j])

\* C20: FindVarRecursive(name) terminates on every graph of blocks, cyclic
\* ones included, and looks at no block twice; it returns the variable of
\* the first block in breadth-first order (this block, then forward block
\* before parent) that has one, null exactly when no reachable block has
\* one, and null without looking at any block for the empty-variable name.
FindVarRecursiveIsBreadthFirst ==
    /\ <>(find.pc = "done")
    /\ [](\A i, j \in 1..Len(find.examined) :
             find.examined[i] = find.examined[j] => i = j)
    /\ [](find.pc = "done" =>
             IF find.name = kEmptyVarName
             THEN find.ret = nullptr /\ find.examined = <<>>
             ELSE /\ find.ret = nullptr <=> \A b \in Reachable({0}) : Lacks(b)
                  /\ find.ret # nullptr =>
                         FirstWithVariable(BreadthFirst(<<0>>, 1), find.ret))

FoundBehindCycle ==
    /\ find.pc = "done"
    /\ find.ret = 2
    /\ find.examined = <<0, 1, 2>>
    /\ prog.fwd[0] = 1
    /\ prog.parent[0] = 2
    /\ prog.fwd[1] = 0

=============================================================================
